---- MODULE Spec2Model ----
(***************************************************************************)
(* Model of the RAG pipeline of rag.py (process_urls, generate_answer,     *)
(* initialize_components) and of its HTTP boundary api.py                  *)
(* (process_urls_api, query_api).                                          *)
(*                                                                         *)
(* The external collaborators (WebBaseLoader, the text splitter, Chroma,   *)
(* the LLM client) are black boxes: every call either fails with an        *)
(* exception or returns one of the results enumerated below.               *)
(*                                                                         *)
(* Strings that the code builds and parses again (the formatted source     *)
(* list) are sequences of atoms, so that "\n".join and split("\n") are     *)
(* real conversions.  Distance scores are kept in tenths (2.5 is 25).      *)
(***************************************************************************)
EXTENDS Integers, Sequences, FiniteSets, TLC

\* ------------------------------------------------------------------ bounds
\* Size of the longest web page, in chunks the splitter cuts it into.
MaxPageChunks == 3

\* Worker threads of the HTTP server: both endpoints are plain `def`
\* handlers, which the framework runs on a thread pool.
Procs == {1, 2}

\* The pages of the web, and the URL lists a client posts to
\* /v1/process-urls.
URLs == {"u1", "u2"}
UrlLists == {<<>>, <<"u1">>, <<"u1", "u2">>}

\* ------------------------------------------------------- program constants
\* `llm = None`, `vector_store = None`
None == 0
\* similarity_search_with_score(query, k=6)
K == 6
\* `score < 2.5`, in tenths
Threshold == 25
\* `docs_with_scores[:4]`
FallbackTop == 4
\* `relevant_docs[:5]`
ContextMax == 5

NL == "\n"
Bullet == "- "
NoSourcesCited == <<"No sources cited">>
EmptyString == <<>>

UninitializedMsg == "Vector database not initialized. Process URLs first."
EmptyStoreAnswer == "Vector store is empty. Please process URLs first."
NoRelevantAnswer == "No relevant information found in the knowledge base."
RetrieveErrorAnswer == "Error retrieving documents: <e>"
GenerateErrorAnswer == "Error generating answer: <e>"
LLMAnswer == "<response.content>"
EmptyUrlsDetail == "At least one URL is required"
ProcessedMessage == "URLs processed successfully"

\* ----------------------------------------------------------- pure helpers
Min(a, b) == IF a < b THEN a ELSE b

Take(s, n) == SubSeq(s, 1, Min(n, Len(s)))

Range(s) == {s[i] : i \in 1..Len(s)}

RECURSIVE Concat(_)
Concat(ss) == IF ss = <<>> THEN <<>> ELSE Head(ss) \o Concat(Tail(ss))

Reverse(s) == [i \in 1..Len(s) |-> s[Len(s) + 1 - i]]

\* One status string of process_urls: its fixed text and the number it embeds.
Status(kind, n) == [kind |-> kind, n |-> n]

StInitializing == "Initializing components..."
StResetting == "Resetting vector store..."
StLoading == "Loading data from URLs with proper headers..."
StLoadError == "Error loading URLs: <e>"
StNoDocuments == "Error: No documents loaded from URLs."
StLoaded == "Loaded <n> documents"
StSplitting == "Splitting text into chunks..."
StNoChunks == "Error: No chunks created from documents."
StCreated == "Created <n> text chunks..."
StStoring == "Generating and storing embeddings (this may take a moment)..."
StSuccess == "SUCCESS! Vector store ready with <n> chunks stored."
StStoreError == "Error storing embeddings: <e>"

IsErrorStatus(st) ==
    st.kind \in {StLoadError, StNoDocuments, StNoChunks, StStoreError}

\* A document as the loader returns it: the text of the page (the page and
\* its size, in chunks) and its metadata, where WebBaseLoader records the URL
\* under `source`.
Document(u, size) ==
    [page_content |-> <<u, size>>, metadata |-> [source |-> u]]

\* The check of the URL list left out.
UrlListNeverEmpty(urls) == FALSE

\* `if not request.urls`
EmptyUrlList(urls) == urls = <<>>

\* loader.load(): the documents of the pages of `urls`, one per URL, as the
\* web `web` serves them.
LoadedDocuments(urls, web) ==
    [i \in 1..Len(urls) |-> Document(urls[i], web[urls[i]])]

\* splitter.split_documents(documents): the chunks of each document, in
\* document order, each keeping its parent's metadata.
ChunksOf(doc) ==
    [j \in 1..doc.page_content[2] |->
        [page_content |-> <<doc.page_content[1], j>>, metadata |-> doc.metadata]]

split_documents(documents) ==
    Concat([i \in 1..Len(documents) |-> ChunksOf(documents[i])])

\* `ids = [str(uuid4()) for _ in docs]`: k fresh identifiers.  Only their
\* being distinct from one another and from the identifiers in the collection
\* matters, so the batch takes the first batch number no record of c carries.
FreshBatch(c) ==
    CHOOSE g \in 1..(Cardinality(c) + 1) :
        /\ \A r \in c : r.id[1] # g
        /\ \A h \in 1..(g - 1) : \E r \in c : r.id[1] = h

uuid4s(c, k) == [i \in 1..k |-> <<FreshBatch(c), i>>]

\* A reset that leaves the records where they are.
KeepCollection(c) == c

\* vector_store.reset_collection()
reset_collection(c) == {}

\* vector_store.add_documents(documents=docs, ids=ids)
add_documents(c, ds, ids) ==
    c \cup {[id |-> ids[i], doc |-> ds[i]] : i \in 1..Len(ds)}

\* collection.count()
CollectionCount(c) == Cardinality(c)

\* The records of a collection in the order of their identifiers.
IdKey(r) == r.id[1] * 1000 + r.id[2]

RECURSIVE SortById(_)
SortById(c) ==
    IF c = {} THEN <<>>
    ELSE LET m == CHOOSE r \in c : \A o \in c : IdKey(r) <= IdKey(o)
         IN <<m>> \o SortById(c \ {m})

\* A query, by what the embedding makes of it: the order in which it ranks
\* the records (one of the two orders by identifier) and the number of
\* records that lie under the threshold for it.
Queries == [descending : BOOLEAN, below : 0..K]
NoQuery == [descending |-> FALSE, below |-> 0]

\* vector_store.similarity_search_with_score(query, k=6): the k nearest
\* records, nearest first, as (doc, score) pairs.  The results under the
\* threshold lie just under it and the others exactly on it.
similarity_search_with_score(c, query) ==
    LET ranked == IF query.descending THEN Reverse(SortById(c)) ELSE SortById(c)
        top == Take(ranked, K)
    IN [i \in 1..Len(top) |->
          <<top[i].doc, IF i <= query.below THEN Threshold - 1 ELSE Threshold>>]

\* [doc for doc, score in docs_with_scores if score < 2.5]
RECURSIVE BelowThreshold(_)
BelowThreshold(dws) ==
    IF dws = <<>> THEN <<>>
    ELSE (IF Head(dws)[2] < Threshold THEN <<Head(dws)[1]>> ELSE <<>>)
         \o BelowThreshold(Tail(dws))

\* [doc for doc, _ in docs_with_scores[:4]]
TopRaw(dws) == [i \in 1..Min(FallbackTop, Len(dws)) |-> dws[i][1]]

\* The filter without its fallback.
RelevantNoFallback(dws) == BelowThreshold(dws)

\* The filter of lines 134-138 with its fallback.
RelevantDocs(dws) ==
    IF BelowThreshold(dws) # <<>> THEN BelowThreshold(dws) ELSE TopRaw(dws)

\* The loop over all of relevant_docs, without the slice.
ContextUncapped(rel) == [i \in 1..Len(rel) |-> [label |-> i, doc |-> rel[i]]]

\* `for i, doc in enumerate(relevant_docs[:5], 1)`: the labelled context.
ContextParts(rel) ==
    [i \in 1..Min(ContextMax, Len(rel)) |-> [label |-> i, doc |-> rel[i]]]

\* The set `sources` the same loop collects.
HasSource(doc) == "source" \in DOMAIN doc.metadata

\* `sources = {doc.metadata['source']}` in place of `sources.add(...)`: only
\* the last chunk's source is kept.
CollectLastSource(parts) ==
    LET with == {j \in 1..Len(parts) : HasSource(parts[j].doc)}
    IN {parts[i].doc.metadata.source : i \in {j \in with : \A k \in with : k <= j}}

CollectSources(parts) ==
    {parts[i].doc.metadata.source :
        i \in {j \in 1..Len(parts) : HasSource(parts[j].doc)}}

\* The orders in which iterating the set `srcs` can yield its elements.
Orders(srcs) ==
    {o \in [1..Cardinality(srcs) -> srcs] : Range(o) = srcs}

\* "\n".join([f"- {src}" for src in sources]) if sources else "No sources cited"
RECURSIVE JoinLines(_)
JoinLines(lines) ==
    IF lines = <<>> THEN <<>>
    ELSE IF Len(lines) = 1 THEN Head(lines)
    ELSE Head(lines) \o <<NL>> \o JoinLines(Tail(lines))

FormatSources(order) ==
    IF order # <<>>
    THEN JoinLines([i \in 1..Len(order) |-> <<Bullet, order[i]>>])
    ELSE NoSourcesCited

\* str.split("\n")
RECURSIVE SplitLines(_)
SplitLines(s) ==
    IF \A i \in 1..Len(s) : s[i] # NL THEN <<s>>
    ELSE LET k == CHOOSE i \in 1..Len(s) :
                     s[i] = NL /\ \A j \in 1..(i - 1) : s[j] # NL
         IN <<SubSeq(s, 1, k - 1)>> \o SplitLines(SubSeq(s, k + 1, Len(s)))

\* `sources.split("\n") if sources else []`
ResponseSources(formatted) ==
    IF formatted # EmptyString THEN SplitLines(formatted) ELSE <<>>

\* The responses of the two endpoints.
ClientError(detail) == [code |-> 400, detail |-> detail]
ServerError == [code |-> 500, detail |-> "Internal Server Error"]
NoResponse == [code |-> 0]
IngestResponse(steps) ==
    [code |-> 200, message |-> ProcessedMessage, steps |-> steps]
QueryResponse(res) ==
    [code |-> 200, answer |-> res.answer, sources |-> ResponseSources(res.sources)]

\* What generate_answer returns: the pair (answer, formatted sources).
Answer(text, formatted) == [answer |-> text, sources |-> formatted]
NoResult == [answer |-> "", sources |-> <<"<none>">>]
NoRequest == [kind |-> "none", urls |-> <<>>, query |-> NoQuery]

\* ------------------------------------------------------------------ state
VARIABLES
    pages,             \* the web: the size of the page at each URL
    llm,               \* rag.llm: None or the handle made by a thread
    vector_store,      \* rag.vector_store: None or the handle made by a thread
    collection,        \* the records of the persisted Chroma collection
    pc,                \* where each thread is in its handler
    request,           \* the request a thread is serving
    statuses,          \* the strings process_urls has yielded to the handler
    documents,         \* process_urls: `documents`
    docs,              \* process_urls: `docs`
    ids,               \* process_urls: `ids`
    count,             \* `count` of either function, -1 while unset
    docs_with_scores,  \* generate_answer: `docs_with_scores`
    relevant_docs,     \* generate_answer: `relevant_docs`
    context_parts,     \* generate_answer: `context_parts`
    sources,           \* generate_answer: `sources`
    result,            \* what generate_answer returned
    response,          \* the HTTP response of the handler
    raised,            \* the exception that left the pipeline function
    trace,             \* history: the calls the thread made on the collaborators
    failed,            \* history: the collaborator call that raised, if any
    discarded          \* history: the batches of the records the call's reset removed

shared == <<pages, llm, vector_store, collection>>
ingestLocals == <<documents, docs, ids>>
queryLocals == <<docs_with_scores, relevant_docs, context_parts, sources>>
vars == <<pages, llm, vector_store, collection, pc, request, statuses,
          documents, docs, ids, count, docs_with_scores, relevant_docs,
          context_parts, sources, result, response, raised, trace, failed,
          discarded>>

\* A record the persist directory holds from before this run of the
\* process; whatever wrote it recorded no `source` in its metadata.
PersistedRecord ==
    [id |-> <<0, 1>>,
     doc |-> [page_content |-> <<"u0", 1>>, metadata |-> [title |-> "u0"]]]

InitProcess ==
    /\ llm = None
    /\ vector_store = None
    /\ collection \in {{}, {PersistedRecord}}
    /\ pc = [p \in Procs |-> "idle"]
    /\ request = [p \in Procs |-> NoRequest]
    /\ statuses = [p \in Procs |-> <<>>]
    /\ documents = [p \in Procs |-> <<>>]
    /\ docs = [p \in Procs |-> <<>>]
    /\ ids = [p \in Procs |-> <<>>]
    /\ count = [p \in Procs |-> -1]
    /\ docs_with_scores = [p \in Procs |-> <<>>]
    /\ relevant_docs = [p \in Procs |-> <<>>]
    /\ context_parts = [p \in Procs |-> <<>>]
    /\ sources = [p \in Procs |-> {}]
    /\ result = [p \in Procs |-> NoResult]
    /\ response = [p \in Procs |-> NoResponse]
    /\ raised = [p \in Procs |-> "none"]
    /\ trace = [p \in Procs |-> <<>>]
    /\ failed = [p \in Procs |-> "none"]
    /\ discarded = [p \in Procs |-> {}]

\* ------------------------------------------------- shared action fragments
Goto(p, label) == pc' = [pc EXCEPT ![p] = label]

\* The thread calls the collaborator `what`, which returns or raises.
Called(p, what) == trace' = [trace EXCEPT ![p] = Append(@, what)]

Returns(p) == UNCHANGED failed

Raises(p, what) == failed' = [failed EXCEPT ![p] = what]

\* process_urls yields sts and goes on at label.
Continue(p, sts, label) ==
    /\ statuses' = [statuses EXCEPT ![p] = @ \o sts]
    /\ Goto(p, label)
    /\ UNCHANGED <<response, raised>>

\* process_urls yields sts and ends: the handler's loop is over and it
\* returns the steps it collected.
YieldAndReturn(p, sts) ==
    /\ statuses' = [statuses EXCEPT ![p] = @ \o sts]
    /\ response' = [response EXCEPT ![p] = IngestResponse(statuses'[p])]
    /\ Goto(p, "done")
    /\ UNCHANGED raised

\* process_urls yields sts and an exception leaves it and the handler, which
\* does not catch it: the framework answers 500.
Propagate(p, sts) ==
    /\ statuses' = [statuses EXCEPT ![p] = @ \o sts]
    /\ raised' = [raised EXCEPT ![p] = "Exception"]
    /\ response' = [response EXCEPT ![p] = ServerError]
    /\ Goto(p, "done")

\* generate_answer goes on at label.
Proceed(p, label) ==
    /\ Goto(p, label)
    /\ UNCHANGED <<result, response, raised>>

\* generate_answer returns res and query_api builds its response from it.
Return(p, res) ==
    /\ result' = [result EXCEPT ![p] = res]
    /\ response' = [response EXCEPT ![p] = QueryResponse(res)]
    /\ Goto(p, "done")
    /\ UNCHANGED raised

\* ---------------------------------------------------- POST /v1/process-urls
\* Lines 54-58 of api.py: the request is refused.
RejectEmpty(p) ==
    /\ response' = [response EXCEPT ![p] = ClientError(EmptyUrlsDetail)]
    /\ Goto(p, "done")

process_urls_api(p, urls) ==
    /\ pc[p] = "idle"
    /\ request' = [request EXCEPT ![p] =
                     [kind |-> "process_urls", urls |-> urls, query |-> NoQuery]]
    /\ IF EmptyUrlList(urls)
       THEN RejectEmpty(p)
       ELSE /\ Goto(p, "initialize")
            /\ UNCHANGED response
    /\ UNCHANGED <<shared, statuses, ingestLocals, count, queryLocals, result,
                   raised, trace, failed, discarded>>

\* `yield "Initializing components..."`, then `if llm is None`
CheckLLM(p) ==
    /\ pc[p] = "initialize"
    /\ Continue(p, <<Status(StInitializing, 0)>>,
                IF llm = None THEN "create_llm" ELSE "check_vs")
    /\ UNCHANGED <<shared, request, ingestLocals, count, queryLocals, result,
                   trace, failed, discarded>>

\* A constructor of the LLM client whose failure is swallowed: the
\* initialisation goes on to the vector store.
CreateLLMContinues(p) ==
    /\ pc[p] = "create_llm"
    /\ UNCHANGED trace
    /\ \/ /\ Returns(p)
          /\ llm' = p
          /\ Continue(p, <<>>, "check_vs")
       \/ /\ Raises(p, "ChatGroq")
          /\ Continue(p, <<>>, "check_vs")
          /\ UNCHANGED llm
    /\ UNCHANGED <<pages, vector_store, collection, request, ingestLocals,
                   count, queryLocals, result, discarded>>

\* `llm = ChatGroq(...)`
CreateLLM(p) ==
    /\ pc[p] = "create_llm"
    /\ UNCHANGED trace
    /\ \/ /\ Returns(p)
          /\ llm' = p
          /\ Continue(p, <<>>, "check_vs")
       \/ /\ Raises(p, "ChatGroq")
          /\ Propagate(p, <<>>)
          /\ UNCHANGED llm
    /\ UNCHANGED <<pages, vector_store, collection, request, ingestLocals,
                   count, queryLocals, result, discarded>>

\* `if vector_store is None`
CheckVectorStore(p) ==
    /\ pc[p] = "check_vs"
    /\ Continue(p, <<>>, IF vector_store = None THEN "create_vs" ELSE "reset")
    /\ UNCHANGED <<shared, request, ingestLocals, count, queryLocals, result,
                   trace, failed, discarded>>

\* `embeddings = HuggingFaceEmbeddings(...)`, `vector_store = Chroma(...)`
CreateVectorStore(p) ==
    /\ pc[p] = "create_vs"
    /\ UNCHANGED trace
    /\ \/ /\ Returns(p)
          /\ vector_store' = p
          /\ Continue(p, <<>>, "reset")
       \/ /\ Raises(p, "Chroma")
          /\ Propagate(p, <<>>)
          /\ UNCHANGED vector_store
    /\ UNCHANGED <<pages, llm, collection, request, ingestLocals, count,
                   queryLocals, result, discarded>>

\* `yield "Resetting vector store..."`, `vector_store.reset_collection()`
ResetCollection(p) ==
    /\ pc[p] = "reset"
    /\ Called(p, "reset")
    /\ \/ /\ Returns(p)
          /\ collection' = reset_collection(collection)
          /\ discarded' = [discarded EXCEPT ![p] = {r.id[1] : r \in collection}]
          /\ Continue(p, <<Status(StResetting, 0)>>, "load")
       \/ /\ Raises(p, "reset")
          /\ Propagate(p, <<Status(StResetting, 0)>>)
          /\ UNCHANGED <<collection, discarded>>
    /\ UNCHANGED <<pages, llm, vector_store, request, ingestLocals, count,
                   queryLocals, result>>

\* What follows a load that returned ds: lines 71-76.
AfterLoad(p, ds) ==
    IF ds = <<>>
    THEN /\ YieldAndReturn(p, <<Status(StLoading, 0), Status(StNoDocuments, 0)>>)
         /\ UNCHANGED documents
    ELSE /\ documents' = [documents EXCEPT ![p] = ds]
         /\ Continue(p, <<Status(StLoading, 0), Status(StLoaded, Len(ds))>>, "split")

\* The error status without the `return` after it.
LoadFailedNoReturn(p) ==
    /\ Continue(p, <<Status(StLoading, 0), Status(StLoadError, 0)>>, "split")
    /\ UNCHANGED documents

\* What follows a load that raised: lines 67-69.
LoadFailed(p) ==
    /\ YieldAndReturn(p, <<Status(StLoading, 0), Status(StLoadError, 0)>>)
    /\ UNCHANGED documents

\* `yield "Loading data ..."`, `documents = loader.load()`
Load(p) ==
    /\ pc[p] = "load"
    /\ Called(p, "fetch")
    /\ \/ /\ Returns(p)
          /\ \E ds \in {<<>>, LoadedDocuments(request[p].urls, pages)} :
                AfterLoad(p, ds)
       \/ /\ Raises(p, "fetch")
          /\ LoadFailed(p)
    /\ UNCHANGED <<shared, request, docs, ids, count, queryLocals, result,
                   discarded>>

\* What follows a split that returned cs: lines 87-91.
AfterSplit(p, cs) ==
    IF cs = <<>>
    THEN /\ YieldAndReturn(p, <<Status(StSplitting, 0), Status(StNoChunks, 0)>>)
         /\ UNCHANGED docs
    ELSE /\ docs' = [docs EXCEPT ![p] = cs]
         /\ Continue(p, <<Status(StSplitting, 0), Status(StCreated, Len(cs))>>, "add")

\* `yield "Splitting text into chunks..."`, `docs = splitter.split_documents(documents)`
Split(p) ==
    /\ pc[p] = "split"
    /\ Called(p, "split")
    /\ \/ /\ Returns(p)
          /\ AfterSplit(p, split_documents(documents[p]))
       \/ /\ Raises(p, "split")
          /\ Propagate(p, <<Status(StSplitting, 0)>>)
          /\ UNCHANGED docs
    /\ UNCHANGED <<shared, request, documents, ids, count, queryLocals, result,
                   discarded>>

\* What follows a failure inside the try of lines 94-104.
StoreFailed(p, sts) ==
    YieldAndReturn(p, sts \o <<Status(StStoreError, 0)>>)

\* `yield "Generating and storing ..."`, `ids = ...`,
\* `vector_store.add_documents(documents=docs, ids=ids)`
AddDocuments(p) ==
    /\ pc[p] = "add"
    /\ Called(p, "add")
    /\ ids' = [ids EXCEPT ![p] = uuid4s(collection, Len(docs[p]))]
    /\ \/ /\ Returns(p)
          /\ collection' = add_documents(collection, docs[p], ids'[p])
          /\ Continue(p, <<Status(StStoring, 0)>>, "verify")
       \/ /\ Raises(p, "add")
          /\ StoreFailed(p, <<Status(StStoring, 0)>>)
          /\ UNCHANGED collection
    /\ UNCHANGED <<pages, llm, vector_store, request, documents, docs, count,
                   queryLocals, result, discarded>>

\* The read-back compared with the number of chunks stored, SUCCESS only
\* when they agree.
AfterCountCompared(p, n) ==
    /\ count' = [count EXCEPT ![p] = n]
    /\ IF n = Len(docs[p])
       THEN YieldAndReturn(p, <<Status(StSuccess, n)>>)
       ELSE YieldAndReturn(p, <<Status(StStoreError, 0)>>)

\* What follows the read-back of n records: line 101.
AfterCount(p, n) ==
    /\ count' = [count EXCEPT ![p] = n]
    /\ YieldAndReturn(p, <<Status(StSuccess, n)>>)

\* `count = collection.count()`, `yield "SUCCESS! ..."`
Verify(p) ==
    /\ pc[p] = "verify"
    /\ Called(p, "count")
    /\ \/ /\ Returns(p)
          /\ AfterCount(p, CollectionCount(collection))
       \/ /\ Raises(p, "count")
          /\ StoreFailed(p, <<>>)
          /\ UNCHANGED count
    /\ UNCHANGED <<shared, request, ingestLocals, queryLocals, result, discarded>>

\* ------------------------------------------------------------ POST /v1/query
\* The check inverted.
InitializedCheck(vs) == vs # None

\* `if vector_store is None`
Uninitialized(vs) == vs = None

\* `except RuntimeError as e: raise HTTPException(status_code=400, detail=str(e))`
RuntimeErrorResponse(msg) == ClientError(msg)

\* `raise RuntimeError("Vector database not initialized. ...")`, which
\* query_api catches.
RaiseUninitialized(p) ==
    /\ raised' = [raised EXCEPT ![p] = "RuntimeError"]
    /\ response' = [response EXCEPT ![p] = RuntimeErrorResponse(UninitializedMsg)]
    /\ Goto(p, "done")
    /\ UNCHANGED result

\* A query that creates the singletons it finds missing, as process_urls
\* does, and goes on.
QueryInitializes(p, query) ==
    /\ pc[p] = "idle"
    /\ request' = [request EXCEPT ![p] =
                     [kind |-> "query", urls |-> <<>>, query |-> query]]
    /\ llm' = IF llm = None THEN p ELSE llm
    /\ vector_store' = IF vector_store = None THEN p ELSE vector_store
    /\ Proceed(p, "ga_count")
    /\ UNCHANGED <<pages, collection, statuses, ingestLocals, count,
                   queryLocals, trace, failed, discarded>>

\* query_api calls generate_answer, which checks the singleton first.
query_api(p, query) ==
    /\ pc[p] = "idle"
    /\ request' = [request EXCEPT ![p] =
                     [kind |-> "query", urls |-> <<>>, query |-> query]]
    /\ IF Uninitialized(vector_store)
       THEN RaiseUninitialized(p)
       ELSE Proceed(p, "ga_count")
    /\ UNCHANGED <<shared, statuses, ingestLocals, count, queryLocals, trace,
                   failed, discarded>>

\* The count without the test for zero.
AfterStoreCountNoTest(p, n) ==
    /\ count' = [count EXCEPT ![p] = n]
    /\ Proceed(p, "ga_search")

\* What follows a count of n records: lines 114-116.
AfterStoreCount(p, n) ==
    /\ count' = [count EXCEPT ![p] = n]
    /\ IF n = 0
       THEN Return(p, Answer(EmptyStoreAnswer, EmptyString))
       ELSE Proceed(p, "ga_search")

\* A count that raised ends the call with the retrieval-error answer.
CountFailedReturns(p) ==
    /\ Return(p, Answer(RetrieveErrorAnswer, EmptyString))
    /\ UNCHANGED count

\* What follows a count that raised: lines 117-118.
CountFailed(p) ==
    /\ Proceed(p, "ga_search")
    /\ UNCHANGED count

\* `count = vector_store._collection.count()`
CountStore(p) ==
    /\ pc[p] = "ga_count"
    /\ Called(p, "count")
    /\ \/ /\ Returns(p)
          /\ AfterStoreCount(p, CollectionCount(collection))
       \/ /\ Raises(p, "count")
          /\ CountFailed(p)
    /\ UNCHANGED <<shared, request, statuses, ingestLocals, queryLocals, discarded>>

\* What follows a search that returned dws: lines 129-153.
AfterSearch(p, dws) ==
    IF dws = <<>>
    THEN /\ Return(p, Answer(NoRelevantAnswer, EmptyString))
         /\ UNCHANGED queryLocals
    ELSE /\ docs_with_scores' = [docs_with_scores EXCEPT ![p] = dws]
         /\ relevant_docs' = [relevant_docs EXCEPT ![p] = RelevantDocs(dws)]
         /\ context_parts' = [context_parts EXCEPT ![p] =
                                ContextParts(relevant_docs'[p])]
         /\ sources' = [sources EXCEPT ![p] = CollectSources(context_parts'[p])]
         /\ Proceed(p, "ga_invoke")

\* The search outside any try: its exception leaves generate_answer.
SearchRaises(p) ==
    /\ raised' = [raised EXCEPT ![p] = "Exception"]
    /\ response' = [response EXCEPT ![p] = ServerError]
    /\ Goto(p, "done")
    /\ UNCHANGED <<result, queryLocals>>

\* What follows a search that raised: lines 140-142.
SearchFailed(p) ==
    /\ Return(p, Answer(RetrieveErrorAnswer, EmptyString))
    /\ UNCHANGED queryLocals

\* `docs_with_scores = vector_store.similarity_search_with_score(query, k=6)`
Search(p) ==
    /\ pc[p] = "ga_search"
    /\ Called(p, "search")
    /\ \/ /\ Returns(p)
          /\ AfterSearch(p, similarity_search_with_score(collection, request[p].query))
       \/ /\ Raises(p, "search")
          /\ SearchFailed(p)
    /\ UNCHANGED <<shared, request, statuses, ingestLocals, count, discarded>>

\* What follows an invocation that returned, the set `sources` being
\* iterated in the order `order`: lines 175-180.
AfterInvoke(p, order) ==
    Return(p, Answer(LLMAnswer, FormatSources(order)))

\* An invocation that raised is made again.
InvokeRetried(p) == Proceed(p, "ga_invoke")

\* What follows an invocation that raised: lines 182-184.
InvokeFailed(p) ==
    Return(p, Answer(GenerateErrorAnswer, EmptyString))

\* `response = llm.invoke(prompt)`; with `llm` still None the attribute
\* access raises inside the try and no invocation is made.
Invoke(p) ==
    /\ pc[p] = "ga_invoke"
    /\ IF llm = None
       THEN /\ Raises(p, "invoke")
            /\ InvokeFailed(p)
            /\ UNCHANGED trace
       ELSE /\ Called(p, "invoke")
            /\ \/ /\ Returns(p)
                  /\ \E order \in Orders(sources[p]) : AfterInvoke(p, order)
               \/ /\ Raises(p, "invoke")
                  /\ InvokeFailed(p)
    /\ UNCHANGED <<shared, request, statuses, ingestLocals, count, queryLocals,
                   discarded>>

\* The response is sent and the thread is free for the next request.
Finish(p) ==
    /\ pc[p] = "done"
    /\ Goto(p, "idle")
    /\ request' = [request EXCEPT ![p] = NoRequest]
    /\ statuses' = [statuses EXCEPT ![p] = <<>>]
    /\ documents' = [documents EXCEPT ![p] = <<>>]
    /\ docs' = [docs EXCEPT ![p] = <<>>]
    /\ ids' = [ids EXCEPT ![p] = <<>>]
    /\ count' = [count EXCEPT ![p] = -1]
    /\ docs_with_scores' = [docs_with_scores EXCEPT ![p] = <<>>]
    /\ relevant_docs' = [relevant_docs EXCEPT ![p] = <<>>]
    /\ context_parts' = [context_parts EXCEPT ![p] = <<>>]
    /\ sources' = [sources EXCEPT ![p] = {}]
    /\ result' = [result EXCEPT ![p] = NoResult]
    /\ response' = [response EXCEPT ![p] = NoResponse]
    /\ raised' = [raised EXCEPT ![p] = "none"]
    /\ trace' = [trace EXCEPT ![p] = <<>>]
    /\ failed' = [failed EXCEPT ![p] = "none"]
    /\ discarded' = [discarded EXCEPT ![p] = {}]
    /\ UNCHANGED shared

\* ---------------------------------------------------------- specifications
\* The steps of a request that is being served.
Step(p) ==
    \/ CheckLLM(p)
    \/ CreateLLM(p)
    \/ CheckVectorStore(p)
    \/ CreateVectorStore(p)
    \/ ResetCollection(p)
    \/ Load(p)
    \/ Split(p)
    \/ AddDocuments(p)
    \/ Verify(p)
    \/ CountStore(p)
    \/ Search(p)
    \/ Invoke(p)
    \/ Finish(p)

\* No other thread is serving a request.
Alone(p) == \A q \in Procs \ {p} : pc[q] = "idle"

\* A request with one of the queries qs arrives.
Receive(p, qs) ==
    \/ \E urls \in UrlLists : process_urls_api(p, urls)
    \/ \E query \in qs : query_api(p, query)

\* Any web and any query, requests served one after another.
Init == InitProcess /\ pages \in [URLs -> 0..MaxPageChunks]

Next == \E p \in Procs : (Alone(p) /\ Receive(p, Queries)) \/ Step(p)

Spec == Init /\ [][Next]_vars

\* A web of pages of full size and one query that every record matches,
\* requests arriving at any time and served concurrently.
InitConc == InitProcess /\ pages = [u \in URLs |-> MaxPageChunks]

NextConc ==
    \E p \in Procs : Receive(p, {[descending |-> FALSE, below |-> K]}) \/ Step(p)

SpecConc == InitConc /\ [][NextConc]_vars

\* -------------------------------------------------------------- properties
Ingesting(p) == request[p].kind = "process_urls"
Querying(p) == request[p].kind = "query"
Done(p) == pc[p] = "done"
Made(p, what) == what \in Range(trace[p])
LastStatus(p) == statuses[p][Len(statuses[p])]
Succeeded(p) == Ingesting(p) /\ \E i \in 1..Len(statuses[p]) : statuses[p][i].kind = StSuccess

\* The chunks of the pages of a URL list.
ChunksOfPages(urls) ==
    UNION {{[page_content |-> <<u, j>>, metadata |-> [source |-> u]] : j \in 1..pages[u]} :
            u \in Range(urls)}

\* C1: with requests served one after another, when a process_urls call has
\* reported SUCCESS the collection holds exactly the chunks of the pages of
\* its URL list, one record per chunk, under the identifiers the call made;
\* and in every call the reset is the first collaborator call, before the
\* fetch and the insert.
C1_OnlyLatestSet ==
    \A p \in Procs :
        /\ Succeeded(p) =>
              /\ collection = {[id |-> ids[p][i], doc |-> docs[p][i]] : i \in 1..Len(docs[p])}
              /\ {r.doc : r \in collection} = ChunksOfPages(request[p].urls)
              /\ Cardinality(collection) = Len(docs[p])
        /\ Ingesting(p) =>
              \A i \in 1..Len(trace[p]) :
                  trace[p][i] \in {"fetch", "add"} => i > 1 /\ trace[p][1] = "reset"

\* A call has succeeded whose reset removed the records an earlier call stored.
C1_Witness ==
    \E p \in Procs : Succeeded(p) /\ 1 \in discarded[p] /\ collection # {}

\* C2: a query made while the vector-store singleton is None ends at once
\* with the RuntimeError, no call made on the store or the LLM, and the
\* endpoint answers 400 with the message; with the singleton set, a query
\* never raises and never answers 400.
C2_UninitializedIsClientError ==
    \A p \in Procs :
        Querying(p) =>
            IF vector_store = None
            THEN /\ Done(p)
                 /\ raised[p] = "RuntimeError"
                 /\ trace[p] = <<>>
                 /\ result[p] = NoResult
                 /\ response[p] = [code |-> 400, detail |-> UninitializedMsg]
            ELSE /\ raised[p] = "none"
                 /\ response[p].code # 400

\* A query was refused although the LLM client exists: the initialisation
\* had failed after creating it.
C2_Witness ==
    \E p \in Procs :
        Querying(p) /\ raised[p] = "RuntimeError" /\ response[p].code = 400 /\ llm # None

\* The LLM was invoked and returned, so the sources were formatted.
Answered(p) == Querying(p) /\ Done(p) /\ Made(p, "invoke") /\ failed[p] # "invoke"

\* C3: when the set of sources generate_answer collected is empty, the
\* response's list of sources is empty.
C3_EmptySourcesRoundTrip ==
    \A p \in Procs :
        Answered(p) /\ sources[p] = {} => response[p].sources = <<>>

\* C4: with the singleton set a query raises nothing and answers 200; a
\* search that raised gives the retrieval-error answer, a search without
\* results the no-relevant-information answer, an invocation that raised the
\* generation-error answer, each with empty sources.
C4_FailuresAreAnswers ==
    \A p \in Procs :
        Querying(p) =>
            /\ raised[p] \in {"none", "RuntimeError"}
            /\ raised[p] = "RuntimeError" => vector_store = None /\ trace[p] = <<>>
            /\ Done(p) /\ raised[p] = "none" =>
                  /\ response[p].code = 200
                  /\ response[p].answer = result[p].answer
            /\ failed[p] = "search" =>
                  /\ Done(p)
                  /\ result[p] = [answer |-> RetrieveErrorAnswer, sources |-> <<>>]
                  /\ response[p].sources = <<>>
            /\ Made(p, "search") /\ failed[p] # "search" /\ docs_with_scores[p] = <<>> =>
                  /\ Done(p)
                  /\ result[p] = [answer |-> NoRelevantAnswer, sources |-> <<>>]
                  /\ response[p].sources = <<>>
            /\ failed[p] = "invoke" =>
                  /\ Done(p)
                  /\ result[p] = [answer |-> GenerateErrorAnswer, sources |-> <<>>]
                  /\ response[p].sources = <<>>

\* A search raised and the query was answered with the error.
C4_Witness ==
    \E p \in Procs :
        Querying(p) /\ failed[p] = "search" /\ response[p].code = 200

\* The four failures of process_urls.
FetchFailed(p) == failed[p] = "fetch"
ZeroDocuments(p) == Made(p, "fetch") /\ failed[p] = "none" /\ documents[p] = <<>>
ZeroChunks(p) == Made(p, "split") /\ failed[p] = "none" /\ docs[p] = <<>>
StorageFailed(p) == failed[p] \in {"add", "count"}

\* C5: an error status is the last status of its sequence; each of a fetch
\* failure, zero documents, zero chunks and a storage failure ends the call
\* with its error status last, no SUCCESS, no exception and the steps
\* returned; the first three without a call of add_documents.
C5_IngestFailuresEndSequence ==
    \A p \in Procs :
        Ingesting(p) =>
            /\ \A i \in 1..Len(statuses[p]) :
                  IsErrorStatus(statuses[p][i]) => i = Len(statuses[p]) /\ Done(p)
            /\ FetchFailed(p) \/ ZeroDocuments(p) \/ ZeroChunks(p) \/ StorageFailed(p) =>
                  /\ Done(p)
                  /\ statuses[p] # <<>>
                  /\ LastStatus(p).kind =
                        IF FetchFailed(p) THEN StLoadError
                        ELSE IF ZeroDocuments(p) THEN StNoDocuments
                        ELSE IF ZeroChunks(p) THEN StNoChunks
                        ELSE StStoreError
                  /\ ~Succeeded(p)
                  /\ raised[p] = "none"
                  /\ response[p] = [code |-> 200, message |-> ProcessedMessage,
                                    steps |-> statuses[p]]
            /\ FetchFailed(p) \/ ZeroDocuments(p) \/ ZeroChunks(p) => ~Made(p, "add")

\* The fetch raised and the call ended with the error status.
C5_Witness ==
    \E p \in Procs :
        Ingesting(p) /\ FetchFailed(p) /\ Done(p) /\ LastStatus(p).kind = StLoadError

\* The positions of the search results under the threshold, and the k-th of
\* a set of positions.
BelowPositions(dws) == {i \in 1..Len(dws) : dws[i][2] < Threshold}
Kth(positions, k) ==
    CHOOSE i \in positions : Cardinality({j \in positions : j < i}) = k - 1

\* C6: of n <= 6 search results, none under the threshold, the context is
\* made of the first min(4, n), in order, and is not empty; with a result
\* under the threshold, every chunk of the context is a result under the
\* threshold, in search order.
C6_FallbackTopFour ==
    \A p \in Procs :
        docs_with_scores[p] # <<>> =>
            LET dws == docs_with_scores[p]
                ctx == context_parts[p]
                below == BelowPositions(dws)
            IN /\ Len(dws) <= 6
               /\ IF below = {}
                  THEN /\ Len(ctx) = (IF Len(dws) < 4 THEN Len(dws) ELSE 4)
                       /\ Len(ctx) > 0
                       /\ \A k \in 1..Len(ctx) : ctx[k].doc = dws[k][1]
                  ELSE /\ Len(ctx) \in 1..Cardinality(below)
                       /\ \A k \in 1..Len(ctx) : ctx[k].doc = dws[Kth(below, k)][1]

\* Six results, none under the threshold, and a context of four.
C6_Witness ==
    \E p \in Procs :
        /\ Len(docs_with_scores[p]) = 6
        /\ BelowPositions(docs_with_scores[p]) = {}
        /\ Len(context_parts[p]) = 4

\* The source URLs of the chunks of the context.
UsedSources(p) ==
    {context_parts[p][k].doc.metadata.source :
        k \in {j \in 1..Len(context_parts[p]) :
                 "source" \in DOMAIN context_parts[p][j].doc.metadata}}

\* C7: on a successful answer whose context has a source URL, the formatted
\* source list has one line "- <url>" for each distinct source URL of the
\* context, and no other line.
C7_OneLinePerSource ==
    \A p \in Procs :
        Answered(p) /\ UsedSources(p) # {} =>
            LET lines == response[p].sources
            IN /\ Len(lines) = Cardinality(UsedSources(p))
               /\ Range(lines) = {<<"- ", u>> : u \in UsedSources(p)}
               /\ result[p].sources # <<>>
               /\ Cardinality({i \in 1..Len(result[p].sources) : result[p].sources[i] = "\n"})
                     = Len(lines) - 1

\* Five chunks of two URLs in the context, two lines.
C7_Witness ==
    \E p \in Procs :
        /\ Answered(p)
        /\ Len(context_parts[p]) = 5
        /\ Cardinality(UsedSources(p)) = 2
        /\ Len(response[p].sources) = 2

\* C8: a query that counts zero records ends with the literal answer and
\* empty sources, having made no call but the count, and raises nothing.
C8_EmptyStoreAnswer ==
    \A p \in Procs :
        Querying(p) /\ count[p] = 0 =>
            /\ Done(p)
            /\ result[p] = [answer |-> "Vector store is empty. Please process URLs first.",
                            sources |-> <<>>]
            /\ response[p] = [code |-> 200,
                              answer |-> "Vector store is empty. Please process URLs first.",
                              sources |-> <<>>]
            /\ trace[p] = <<"count">>
            /\ raised[p] = "none"

\* A query has counted zero records in the collection of the singleton.
C8_Witness ==
    \E p \in Procs :
        Querying(p) /\ count[p] = 0 /\ Done(p) /\ vector_store # None

\* C9: a request with an empty URL list is answered 400 "At least one URL is
\* required" in the step that receives it: no status, no collaborator call,
\* the singletons and the collection as they were.
C9_EmptyUrlListRejected ==
    [][\A p \in Procs :
          (request'[p].kind = "process_urls" /\ request'[p].urls = <<>>) =>
              /\ pc'[p] = "done"
              /\ response'[p] = [code |-> 400, detail |-> "At least one URL is required"]
              /\ statuses'[p] = <<>>
              /\ trace'[p] = <<>>
              /\ raised'[p] = "none"
              /\ pc[p] = "idle" => UNCHANGED <<llm, vector_store, collection>>]_vars

\* An empty URL list was refused before any initialisation.
C9_Witness ==
    \E p \in Procs :
        /\ Ingesting(p) /\ request[p].urls = <<>> /\ response[p].code = 400
        /\ llm = None /\ vector_store = None

\* C10: a call reports SUCCESS only if the count it read back is the number
\* of chunks it passed to add_documents.
C10_SuccessOnlyIfCountMatches ==
    \A p \in Procs : Succeeded(p) => count[p] = Len(docs[p])

\* C11: once a singleton handle is set, no step replaces it by another handle
\* or sets it back to None.
C11_HandlesCreatedOnce ==
    [][/\ llm # None => llm' = llm
       /\ vector_store # None => vector_store' = vector_store]_vars

\* The records a process_urls call passed to add_documents.
StoredBy(p) == {[id |-> ids[p][i], doc |-> docs[p][i]] : i \in 1..Len(ids[p])}

\* C12: nothing keeps two process_urls calls apart: the read-back that
\* returns always ends the call with SUCCESS and the number of records the
\* collection holds at that moment, whichever calls stored them and however
\* many this call stored.
C12_SuccessReportsWholeStore ==
    [][\A p \in Procs :
          (pc[p] = "verify" /\ pc'[p] = "done" /\ failed'[p] = "none") =>
              /\ count'[p] = Cardinality(collection)
              /\ statuses'[p] =
                    Append(statuses[p], Status(StSuccess, Cardinality(collection)))
              /\ response'[p] = IngestResponse(statuses'[p])]_vars

\* Two calls with different URL lists each reset before either inserted: the
\* collection holds the chunks of both, and one of them has reported SUCCESS
\* with more chunks than it stored.
C12_Witness ==
    \E p, q \in Procs :
        /\ p # q /\ Ingesting(p) /\ Ingesting(q)
        /\ request[p].urls # request[q].urls
        /\ docs[p] # <<>> /\ docs[q] # <<>>
        /\ Range(ids[p]) \cap Range(ids[q]) = {}
        /\ collection = StoredBy(p) \cup StoredBy(q)
        /\ Succeeded(p)
        /\ count[p] = Len(docs[p]) + Len(docs[q])
        /\ count[p] > Len(docs[p])

\* A process_urls call between its reset and its insert.
Repopulating(q) == Ingesting(q) /\ pc[q] \in {"load", "split", "add"}

\* C13: the reset empties the collection at once, before the call has
\* fetched anything to put in its place, and a query's count reads the
\* collection as it is at that moment, whatever an ingestion is doing: on an
\* empty collection it ends the query with the empty-store answer.
C13_QueryReadsLiveStore ==
    [][\A p \in Procs :
          /\ (pc[p] = "reset" /\ pc'[p] = "load") => collection' = {}
          /\ (pc[p] = "ga_count" /\ pc'[p] # "ga_count" /\ failed'[p] = "none") =>
                /\ count'[p] = Cardinality(collection)
                /\ collection = {} =>
                      /\ pc'[p] = "done"
                      /\ result'[p] = Answer(EmptyStoreAnswer, EmptyString)
                      /\ response'[p].code = 200]_vars

\* A query was given the empty-store answer while a process_urls call, whose
\* reset removed the records an earlier call stored, has not inserted yet.
C13_Witness ==
    \E p, q \in Procs :
        /\ p # q
        /\ Querying(p) /\ Done(p) /\ count[p] = 0
        /\ result[p].answer = EmptyStoreAnswer
        /\ Repopulating(q) /\ 1 \in discarded[q]
        /\ collection = {}

\* The search results that survive: those under the threshold, in search
\* order, or the first four when none is.
Survivors(dws) ==
    LET below == BelowPositions(dws)
    IN IF below = {}
       THEN [k \in 1..(IF Len(dws) < 4 THEN Len(dws) ELSE 4) |-> dws[k][1]]
       ELSE [k \in 1..Cardinality(below) |-> dws[Kth(below, k)][1]]

\* C14: when the search returned a result, the context is made of the first
\* min(5, s) of the s surviving results, in search order, labelled 1, 2, ...
\* in that order: between one and five chunks.
C14_ContextFirstFive ==
    \A p \in Procs :
        docs_with_scores[p] # <<>> =>
            LET surv == Survivors(docs_with_scores[p])
                ctx == context_parts[p]
            IN /\ Len(ctx) = (IF Len(surv) < 5 THEN Len(surv) ELSE 5)
               /\ Len(ctx) >= 1 /\ Len(ctx) <= 5
               /\ \A k \in 1..Len(ctx) : ctx[k] = [label |-> k, doc |-> surv[k]]

\* Six results survived the filter and the context has five chunks.
C14_Witness ==
    \E p \in Procs :
        /\ Len(docs_with_scores[p]) = 6
        /\ Cardinality(BelowPositions(docs_with_scores[p])) = 6
        /\ Len(context_parts[p]) = 5

\* A process_urls call that failed after its reset and before its insert.
FailedBeforeInsert(p) ==
    Ingesting(p) /\ (FetchFailed(p) \/ ZeroDocuments(p) \/ ZeroChunks(p))

\* C15: with requests served one after another, a process_urls call that
\* failed at the fetch, at zero documents or at zero chunks has made its
\* reset and leaves the collection empty, the singleton set; and a query on
\* an empty collection with the singleton set is not refused as
\* uninitialized, is answered from no record and, its count returned, gets
\* the empty-store answer with no search made.
C15_ResetRetainedOnFailure ==
    \A p \in Procs :
        /\ FailedBeforeInsert(p) =>
              /\ Done(p)
              /\ Made(p, "reset")
              /\ collection = {}
              /\ vector_store # None
        /\ Querying(p) /\ vector_store # None /\ collection = {} =>
              /\ raised[p] = "none"
              /\ response[p].code # 400
              /\ docs_with_scores[p] = <<>>
              /\ Made(p, "count") /\ failed[p] = "none" =>
                    /\ Done(p)
                    /\ result[p] = [answer |-> EmptyStoreAnswer, sources |-> <<>>]
                    /\ ~Made(p, "search")

\* The fetch of a call failed after its reset had removed the records an
\* earlier call stored: the collection is empty.
C15_Witness ==
    \E p \in Procs :
        /\ Ingesting(p) /\ Done(p) /\ FetchFailed(p)
        /\ 1 \in discarded[p]
        /\ collection = {}
        /\ vector_store # None

IsPrefix(s, t) == Len(s) <= Len(t) /\ s = SubSeq(t, 1, Len(s))

\* C16: the collaborator calls of a process_urls call are the beginning of
\* reset, fetch, split, add, count and those of a generate_answer call the
\* beginning of count, search, invoke: each call is made at most once, in
\* that order, a call that raised is the last one (but for the count of a
\* query, which is not made again either), and the LLM is invoked only after
\* a search that returned a result.
C16_NoRetryFixedOrder ==
    \A p \in Procs :
        /\ Ingesting(p) =>
              IsPrefix(trace[p], <<"reset", "fetch", "split", "add", "count">>)
        /\ Querying(p) =>
              /\ IsPrefix(trace[p], <<"count", "search", "invoke">>)
              /\ Made(p, "invoke") => docs_with_scores[p] # <<>>
        /\ failed[p] \notin {"none", "ChatGroq", "Chroma"} /\ ~(Querying(p) /\ failed[p] = "count") =>
              /\ Done(p)
              /\ trace[p][Len(trace[p])] = failed[p]

\* The invocation of the LLM raised: the call ended, the LLM invoked once.
C16_Witness ==
    \E p \in Procs :
        /\ Querying(p) /\ Done(p) /\ failed[p] = "invoke"
        /\ trace[p] = <<"count", "search", "invoke">>

\* C17: whenever the vector-store singleton is set, the LLM singleton is
\* set: a query that got past the check of the vector store finds an LLM
\* client to invoke, and an invocation that failed is one that was made.
C17_StoreImpliesLLM ==
    /\ vector_store # None => llm # None
    /\ \A p \in Procs :
          /\ Querying(p) /\ pc[p] \in {"ga_count", "ga_search", "ga_invoke"} => llm # None
          /\ Querying(p) /\ failed[p] = "invoke" => Made(p, "invoke")

\* One initialisation failed after it had created the LLM client, another
\* completed it, and a query has invoked the LLM.
C17_Witness ==
    \E p, q \in Procs :
        /\ failed[p] = "Chroma" /\ Done(p)
        /\ Querying(q) /\ Made(q, "invoke")
        /\ vector_store # None /\ llm # None

\* C18: no step of a query, from its arrival to its answer or its failure,
\* changes the collection or either singleton.
C18_QueryReadOnly ==
    [][\A p \in Procs :
          (pc'[p] # pc[p] /\ request'[p].kind = "query") =>
              UNCHANGED <<llm, vector_store, collection>>]_vars

\* A query made before any initialisation was refused and both singletons
\* are still None.
C18_Witness ==
    \E p \in Procs :
        /\ Querying(p) /\ Done(p) /\ raised[p] = "RuntimeError"
        /\ llm = None /\ vector_store = None

\* The count of a query raised and no later call of it did.
CountSwallowed(p) == Querying(p) /\ failed[p] = "count"

\* C19: a count that raised in a query leaves `count` unset and raises
\* nothing out of the call: the call is at the search or has made it, and
\* what it then answers is what the search and the LLM gave, never the
\* empty-store answer and no error answer.
C19_CountFailureSwallowed ==
    \A p \in Procs :
        CountSwallowed(p) =>
            /\ raised[p] = "none"
            /\ count[p] = -1
            /\ pc[p] = "ga_search" \/ Made(p, "search")
            /\ pc[p] = "ga_search" => result[p] = NoResult /\ response[p] = NoResponse
            /\ Done(p) =>
                  /\ response[p].code = 200
                  /\ result[p].answer \in {NoRelevantAnswer, LLMAnswer}
                  /\ result[p].answer = NoRelevantAnswer <=> docs_with_scores[p] = <<>>

\* The count raised on an empty collection and the search was made all the
\* same: it found nothing.
C19_Witness ==
    \E p \in Procs :
        /\ CountSwallowed(p) /\ Done(p)
        /\ trace[p] = <<"count", "search">>
        /\ collection = {}
        /\ result[p].answer = NoRelevantAnswer

====
